---------------------------- MODULE Spec2Model ----------------------------
(***************************************************************************)
(* Family tree manager: the people and relationships tables, the request   *)
(* handlers of the server (createPerson, updatePerson, deletePerson,       *)
(* createRelationship, deleteRelationship, getFamilyTree) and the client's *)
(* FamilyTree component, which assembles the flat getFamilyTree result     *)
(* into a forest (treeStructure / buildTree).                              *)
(*                                                                         *)
(* A nullable column holds <<>> (SQL NULL) or <<v>>.  The result of a      *)
(* select is a sequence of rows, in ascending id order.                    *)
(***************************************************************************)
EXTENDS Integers, Sequences, FiniteSets, TLC

\* ------------------------------------------------------------- bounds
\* createPerson / createRelationship inserts a behaviour may perform.
MaxPeople == 3
MaxRels == 3
\* The same for the client session of SpecTree.
MaxTreePeople == 4
MaxTreeRels == 4
\* The inserts of SpecPerson and the readings its clock takes after 0.
MaxRecPeople == 2
MaxRecRels == 1
MaxTime == 1
\* The inserts of SpecUpdate and the readings its clock takes after 0.
MaxUpdPeople == 1
MaxUpdTime == 3
\* Frames the call stack of the client holds before the engine raises
\* RangeError (Maximum call stack size exceeded).
MaxStack == 6
\* Requests the server handles at once, and the inserts of SpecConc.
MaxCalls == 2
MaxConcPeople == 2
MaxConcRels == 2

Null == <<>>
Some(v) == <<v>>

VARIABLES
    people,                 \* rows of peopleTable
    relationships,          \* rows of relationshipsTable
    people_id_seq,          \* last value of the serial behind people.id
    relationships_id_seq,   \* last value of the serial behind relationships.id
    now,                    \* the clock
    response,               \* the reply to the last completed request
    data,                   \* FamilyTree's prop: the loaded getFamilyTree result
    memo,                   \* position of the treeStructure computation
    roots,                  \* rootPeople not yet handed to buildTree
    stack,                  \* buildTree activations, outermost first
    treeStructure,          \* the forest assembled so far
    calls                   \* the requests the server is handling

store == <<people, relationships, people_id_seq, relationships_id_seq>>
client == <<data, memo, roots, stack, treeStructure>>
vars == <<people, relationships, people_id_seq, relationships_id_seq, now,
          response, data, memo, roots, stack, treeStructure, calls>>

\* ------------------------------------------------------------- rows
PersonIds == 1..MaxPeople
TreePersonIds == 1..MaxTreePeople

\* Ascending-id sequence of a finite set of rows with distinct ids.
RECURSIVE SortById(_)
SortById(rows) ==
    IF rows = {} THEN <<>>
    ELSE LET first == CHOOSE r \in rows : \A o \in rows : r.id <= o.id
         IN  <<first>> \o SortById(rows \ {first})

\* db.select().from(peopleTable).where(eq(peopleTable.id, id))
SelectPeopleById(P, id) == SortById({p \in P : p.id = id})

\* db.select().from(relationshipsTable)
\*   .where(and(eq(parent_id, a), eq(child_id, b)))
SelectRelationshipsByPair(R, a, b) ==
    SortById({r \in R : r.parent_id = a /\ r.child_id = b})

\* ------------------------------------------------------------- errors
SelfRelationship == <<"A person cannot be their own parent">>
ParentNotFound(id) == <<"Parent with ID", id, "does not exist">>
ChildNotFound(id) == <<"Child with ID", id, "does not exist">>
DuplicateRelationship == <<"Relationship already exists between these people">>
CircularRelationship == <<"Cannot create circular parent-child relationship">>
ForeignKeyViolation == <<"insert or update on table violates foreign key constraint">>
PersonNotFound(id) == <<"Person with id", id, "not found">>
NoError == <<>>

Reply(op, input, error, result) ==
    [op |-> op, input |-> input, error |-> error, result |-> result]


\* ------------------------------------------------------------- inputs
FullNames == {"Ann", "Bob"}
Dates == {Null, Some(1)}
PhotoUrls == {Null, Some("http://x/p.png")}

\* An optional field of an input is Undefined when omitted, <<v>> when given.
Undefined == <<>>
Given(v) == <<v>>

\* createPersonInputSchema: every field is required, three are nullable.
CreatePersonInputs ==
    [full_name : FullNames, birth_date : Dates, death_date : Dates,
     photo_url : PhotoUrls]

\* updatePersonInputSchema: id is required, every other field optional, three
\* of them nullable.
UpdatePersonInputs ==
    [id : PersonIds,
     full_name : {Undefined} \cup {Given(n) : n \in FullNames},
     birth_date : {Undefined} \cup {Given(d) : d \in Dates},
     death_date : {Undefined} \cup {Given(d) : d \in Dates},
     photo_url : {Undefined} \cup {Given(u) : u \in PhotoUrls}]

\* createRelationshipInputSchema / deleteRelationshipInputSchema
RelationshipInputs == [parent_id : PersonIds, child_id : PersonIds]

\* getPersonInputSchema
GetPersonInputs == [id : PersonIds]

\* ------------------------------------------------------------- database
\* db.insert(peopleTable).values(input).returning(): id from the serial,
\* created_at and updated_at from defaultNow().
InsertPerson(seq, t, input) ==
    [id |-> seq + 1, full_name |-> input.full_name,
     birth_date |-> input.birth_date, death_date |-> input.death_date,
     photo_url |-> input.photo_url, created_at |-> t, updated_at |-> t]

InsertRelationship_NoRollback(P, R, seq, t, input) ==
    LET row == [id |-> seq + 1, parent_id |-> input.parent_id,
                child_id |-> input.child_id, created_at |-> t]
        fk  == (\E p \in P : p.id = input.parent_id)
               /\ (\E p \in P : p.id = input.child_id)
    IN  [error |-> IF fk THEN NoError ELSE ForeignKeyViolation,
         result |-> IF fk THEN <<row>> ELSE <<>>,
         relationships |-> R \cup {row},
         seq |-> seq + 1]

InsertRelationship_NoFk(P, R, seq, t, input) ==
    LET row == [id |-> seq + 1, parent_id |-> input.parent_id,
                child_id |-> input.child_id, created_at |-> t]
    IN  [error |-> NoError, result |-> <<row>>,
         relationships |-> R \cup {row}, seq |-> seq + 1]

InsertRelationship_CountId(P, R, seq, t, input) ==
    LET row == [id |-> Cardinality(R) + 1, parent_id |-> input.parent_id,
                child_id |-> input.child_id, created_at |-> t]
        fk  == (\E p \in P : p.id = input.parent_id)
               /\ (\E p \in P : p.id = input.child_id)
    IN  [error |-> IF fk THEN NoError ELSE ForeignKeyViolation,
         result |-> IF fk THEN <<row>> ELSE <<>>,
         relationships |-> IF fk THEN R \cup {row} ELSE R,
         seq |-> seq + 1]

\* db.insert(relationshipsTable).values({parent_id, child_id}).returning():
\* the row takes the next serial value; both foreign keys are checked against
\* peopleTable, and the serial keeps the value it handed out when they fail.
InsertRelationship(P, R, seq, t, input) ==
    LET row == [id |-> seq + 1, parent_id |-> input.parent_id,
                child_id |-> input.child_id, created_at |-> t]
        fk  == (\E p \in P : p.id = input.parent_id)
               /\ (\E p \in P : p.id = input.child_id)
    IN  [error |-> IF fk THEN NoError ELSE ForeignKeyViolation,
         result |-> IF fk THEN <<row>> ELSE <<>>,
         relationships |-> IF fk THEN R \cup {row} ELSE R,
         seq |-> seq + 1]

DeleteRelationshipsByPair_EitherDirection(R, a, b) ==
    {r \in R : ~(r.parent_id = a /\ r.child_id = b)
                /\ ~(r.parent_id = b /\ r.child_id = a)}

\* db.delete(relationshipsTable).where(and(eq(parent_id, a), eq(child_id, b)))
DeleteRelationshipsByPair(R, a, b) ==
    {r \in R : ~(r.parent_id = a /\ r.child_id = b)}

CascadeDelete_ParentOnly(R, id) == {r \in R : r.parent_id # id}

\* onDelete: 'cascade' on parent_id and on child_id.
CascadeDelete(R, id) == {r \in R : r.parent_id # id /\ r.child_id # id}

\* db.delete(peopleTable).where(eq(peopleTable.id, id))
DeletePeopleById(P, id) == {p \in P : p.id # id}

\* ------------------------------------------------------------- createRelationship
\* The five checks of the handler and the insert, against one state of the
\* tables.  The outcome is what the handler returns or throws and the
\* relationships table and serial it leaves.
IsSelfRelationship_Never(input) == FALSE

IsSelfRelationship(input) == input.parent_id = input.child_id

ExistingRelationship_Reversed(R, input) ==
    SelectRelationshipsByPair(R, input.child_id, input.parent_id)

ExistingRelationship(R, input) ==
    SelectRelationshipsByPair(R, input.parent_id, input.child_id)

CircularCheck_ChildIsParent(R, input) ==
    SortById({r \in R : r.parent_id = input.child_id})

CircularCheck_SamePair(R, input) ==
    SelectRelationshipsByPair(R, input.parent_id, input.child_id)

CircularCheck(R, input) ==
    SelectRelationshipsByPair(R, input.child_id, input.parent_id)

Rejected(R, seq, error) ==
    [error |-> error, result |-> <<>>, relationships |-> R, seq |-> seq]

createRelationship_ChildFirst(P, R, seq, t, input) ==
    IF IsSelfRelationship(input) THEN Rejected(R, seq, SelfRelationship)
    ELSE LET parent == SelectPeopleById(P, input.parent_id)
             child  == SelectPeopleById(P, input.child_id)
         IN  IF Len(child) = 0
                 THEN Rejected(R, seq, ChildNotFound(input.child_id))
             ELSE IF Len(parent) = 0
                 THEN Rejected(R, seq, ParentNotFound(input.parent_id))
             ELSE IF Len(ExistingRelationship(R, input)) > 0
                 THEN Rejected(R, seq, DuplicateRelationship)
             ELSE IF Len(CircularCheck(R, input)) > 0
                 THEN Rejected(R, seq, CircularRelationship)
             ELSE InsertRelationship(P, R, seq, t, input)

createRelationship(P, R, seq, t, input) ==
    IF IsSelfRelationship(input) THEN Rejected(R, seq, SelfRelationship)
    ELSE LET parent == SelectPeopleById(P, input.parent_id)
             child  == SelectPeopleById(P, input.child_id)
         IN  IF Len(parent) = 0
                 THEN Rejected(R, seq, ParentNotFound(input.parent_id))
             ELSE IF Len(child) = 0
                 THEN Rejected(R, seq, ChildNotFound(input.child_id))
             ELSE IF Len(ExistingRelationship(R, input)) > 0
                 THEN Rejected(R, seq, DuplicateRelationship)
             ELSE IF Len(CircularCheck(R, input)) > 0
                 THEN Rejected(R, seq, CircularRelationship)
             ELSE InsertRelationship(P, R, seq, t, input)

\* ------------------------------------------------------------- requests, one at a time
CreatePerson_ReuseId(input) ==
    /\ LET top == IF people = {} THEN 0
                  ELSE CHOOSE n \in {p.id : p \in people} :
                           \A p \in people : p.id <= n
           row == InsertPerson(top, now, input)
       IN  /\ people' = people \cup {row}
           /\ people_id_seq' = top + 1
           /\ response' = Reply("createPerson", input, NoError, <<row>>)
    /\ UNCHANGED <<relationships, relationships_id_seq, now, client, calls>>

CreatePerson(input) ==
    /\ LET row == InsertPerson(people_id_seq, now, input)
       IN  /\ people' = people \cup {row}
           /\ people_id_seq' = people_id_seq + 1
           /\ response' = Reply("createPerson", input, NoError, <<row>>)
    /\ UNCHANGED <<relationships, relationships_id_seq, now, client, calls>>

CreateRelationship(input) ==
    /\ LET out == createRelationship(people, relationships,
                                     relationships_id_seq, now, input)
       IN  /\ relationships' = out.relationships
           /\ relationships_id_seq' = out.seq
           /\ response' = Reply("createRelationship", input, out.error, out.result)
    /\ UNCHANGED <<people, people_id_seq, now, client, calls>>

DeleteRelationship_AlwaysSuccess(input) ==
    /\ relationships' = DeleteRelationshipsByPair(
                            relationships, input.parent_id, input.child_id)
    /\ response' = Reply("deleteRelationship", input, NoError,
                         [success |-> TRUE])
    /\ UNCHANGED <<people, people_id_seq, relationships_id_seq, now, client, calls>>

DeleteRelationship(input) ==
    /\ LET rowCount == Cardinality({r \in relationships :
                           r.parent_id = input.parent_id
                           /\ r.child_id = input.child_id})
       IN  /\ relationships' = DeleteRelationshipsByPair(
                                   relationships, input.parent_id, input.child_id)
           /\ response' = Reply("deleteRelationship", input, NoError,
                                [success |-> rowCount > 0])
    /\ UNCHANGED <<people, people_id_seq, relationships_id_seq, now, client, calls>>

DeletePerson_NoCheck(input) ==
    /\ people' = DeletePeopleById(people, input.id)
    /\ relationships' = CascadeDelete(relationships, input.id)
    /\ response' = Reply("deletePerson", input, NoError, [success |-> TRUE])
    /\ UNCHANGED <<people_id_seq, relationships_id_seq, now, client, calls>>

DeletePerson(input) ==
    /\ LET existingPerson == SelectPeopleById(people, input.id)
       IN  IF Len(existingPerson) = 0
           THEN /\ response' = Reply("deletePerson", input,
                                     PersonNotFound(input.id), <<>>)
                /\ UNCHANGED <<people, relationships>>
           ELSE /\ people' = DeletePeopleById(people, input.id)
                /\ relationships' = CascadeDelete(relationships, input.id)
                /\ response' = Reply("deletePerson", input, NoError,
                                     [success |-> TRUE])
    /\ UNCHANGED <<people_id_seq, relationships_id_seq, now, client, calls>>


\* updatePerson: the existence check, then the update of the supplied fields
\* and of updated_at.
UpdateRow_ClearsOmitted(row, t, input) ==
    [id |-> row.id,
     full_name  |-> IF input.full_name # Undefined
                    THEN input.full_name[1] ELSE row.full_name,
     birth_date |-> IF input.birth_date # Undefined
                    THEN input.birth_date[1] ELSE Null,
     death_date |-> IF input.death_date # Undefined
                    THEN input.death_date[1] ELSE Null,
     photo_url  |-> IF input.photo_url # Undefined
                    THEN input.photo_url[1] ELSE Null,
     created_at |-> row.created_at,
     updated_at |-> t]

UpdateRow(row, t, input) ==
    [id |-> row.id,
     full_name  |-> IF input.full_name # Undefined
                    THEN input.full_name[1] ELSE row.full_name,
     birth_date |-> IF input.birth_date # Undefined
                    THEN input.birth_date[1] ELSE row.birth_date,
     death_date |-> IF input.death_date # Undefined
                    THEN input.death_date[1] ELSE row.death_date,
     photo_url  |-> IF input.photo_url # Undefined
                    THEN input.photo_url[1] ELSE row.photo_url,
     created_at |-> row.created_at,
     updated_at |-> t]

\* db.update(peopleTable).set(updateData).where(eq(id, input.id)).returning()
UpdatePeopleById(P, t, input) ==
    {IF p.id = input.id THEN UpdateRow(p, t, input) ELSE p : p \in P}

UpdatePerson_NoCheck(input) ==
    /\ people' = UpdatePeopleById(people, now, input)
    /\ response' = Reply("updatePerson", input, NoError,
                         SelectPeopleById(people', input.id))
    /\ UNCHANGED <<relationships, people_id_seq, relationships_id_seq, now,
                   client, calls>>

UpdatePerson(input) ==
    /\ LET existingPerson == SelectPeopleById(people, input.id)
       IN  IF Len(existingPerson) = 0
           THEN /\ response' = Reply("updatePerson", input,
                                     PersonNotFound(input.id), <<>>)
                /\ UNCHANGED people
           ELSE /\ people' = UpdatePeopleById(people, now, input)
                /\ response' = Reply("updatePerson", input, NoError,
                                     SelectPeopleById(people', input.id))
    /\ UNCHANGED <<relationships, people_id_seq, relationships_id_seq, now,
                   client, calls>>

\* ------------------------------------------------------------- getPerson
ParentResults_JoinOnChild(P, R, id) ==
    LET edges == SortById({r \in R : r.child_id = id
                                     /\ \E p \in P : p.id = r.child_id})
    IN  [i \in 1..Len(edges) |-> CHOOSE p \in P : p.id = edges[i].child_id]

\* select ... from people inner join relationships on people.id = parent_id
\* where child_id = id: the parent's row, once per edge.
ParentResults(P, R, id) ==
    LET edges == SortById({r \in R : r.child_id = id
                                     /\ \E p \in P : p.id = r.parent_id})
    IN  [i \in 1..Len(edges) |-> CHOOSE p \in P : p.id = edges[i].parent_id]

ChildResults_JoinOnParent(P, R, id) ==
    LET edges == SortById({r \in R : r.parent_id = id
                                     /\ \E p \in P : p.id = r.parent_id})
    IN  [i \in 1..Len(edges) |-> CHOOSE p \in P : p.id = edges[i].parent_id]

\* select ... from people inner join relationships on people.id = child_id
\* where parent_id = id: the child's row, once per edge.
ChildResults(P, R, id) ==
    LET edges == SortById({r \in R : r.parent_id = id
                                     /\ \E p \in P : p.id = r.child_id})
    IN  [i \in 1..Len(edges) |-> CHOOSE p \in P : p.id = edges[i].child_id]

\* null (Null) when the person select is empty, else the person's columns
\* with the two joined lists.
getPerson(P, R, input) ==
    LET personResult == SelectPeopleById(P, input.id)
    IN  IF Len(personResult) = 0 THEN Null
        ELSE LET person == personResult[1]
             IN  Some([id |-> person.id, full_name |-> person.full_name,
                       birth_date |-> person.birth_date,
                       death_date |-> person.death_date,
                       photo_url |-> person.photo_url,
                       created_at |-> person.created_at,
                       updated_at |-> person.updated_at,
                       parents |-> ParentResults(P, R, input.id),
                       children |-> ChildResults(P, R, input.id)])

GetPerson(input) ==
    /\ response' = Reply("getPerson", input, NoError,
                         getPerson(people, relationships, input))
    /\ UNCHANGED <<store, now, client, calls>>

\* ------------------------------------------------------------- getFamilyTree
\* Array.prototype.find on a list of rows: <<row>>, or <<>> for undefined.
FindById(rows, id) ==
    LET at == {i \in 1..Len(rows) : rows[i].id = id}
    IN  IF at = {} THEN <<>>
        ELSE <<rows[CHOOSE i \in at : \A j \in at : i <= j]>>

ChildMissing(id) == <<"Child with id", id, "not found">>
ParentMissing(id) == <<"Parent with id", id, "not found">>

Annotate_Swapped(person, allPeople, allRelationships) ==
    LET childRelationships ==
            SelectSeq(allRelationships, LAMBDA rel : rel.parent_id = person.id)
        parentRelationships ==
            SelectSeq(allRelationships, LAMBDA rel : rel.child_id = person.id)
    IN  [id |-> person.id, full_name |-> person.full_name,
         birth_date |-> person.birth_date, death_date |-> person.death_date,
         photo_url |-> person.photo_url, created_at |-> person.created_at,
         updated_at |-> person.updated_at,
         parents |-> [i \in 1..Len(childRelationships) |->
                        FindById(allPeople, childRelationships[i].child_id)[1]],
         children |-> [i \in 1..Len(parentRelationships) |->
                        FindById(allPeople, parentRelationships[i].parent_id)[1]]]

\* One entry of familyTree: the person with the rows of its children and of
\* its parents, one per relationship, in the order of allRelationships.
Annotate(person, allPeople, allRelationships) ==
    LET childRelationships ==
            SelectSeq(allRelationships, LAMBDA rel : rel.parent_id = person.id)
        parentRelationships ==
            SelectSeq(allRelationships, LAMBDA rel : rel.child_id = person.id)
    IN  [id |-> person.id, full_name |-> person.full_name,
         birth_date |-> person.birth_date, death_date |-> person.death_date,
         photo_url |-> person.photo_url, created_at |-> person.created_at,
         updated_at |-> person.updated_at,
         parents |-> [i \in 1..Len(parentRelationships) |->
                        FindById(allPeople, parentRelationships[i].parent_id)[1]],
         children |-> [i \in 1..Len(childRelationships) |->
                        FindById(allPeople, childRelationships[i].child_id)[1]]]

\* The first lookup that finds no row, in the order the handler performs
\* them: person by person, the children of a person before its parents.
FirstMissing(person, allPeople, allRelationships) ==
    LET childRelationships ==
            SelectSeq(allRelationships, LAMBDA rel : rel.parent_id = person.id)
        parentRelationships ==
            SelectSeq(allRelationships, LAMBDA rel : rel.child_id = person.id)
        noChild == SelectSeq(childRelationships,
                       LAMBDA rel : FindById(allPeople, rel.child_id) = <<>>)
        noParent == SelectSeq(parentRelationships,
                       LAMBDA rel : FindById(allPeople, rel.parent_id) = <<>>)
    IN  IF Len(noChild) > 0 THEN ChildMissing(noChild[1].child_id)
        ELSE IF Len(noParent) > 0 THEN ParentMissing(noParent[1].parent_id)
        ELSE NoError

getFamilyTree(allPeople, allRelationships) ==
    LET failing == SelectSeq(allPeople,
                       LAMBDA person :
                           FirstMissing(person, allPeople, allRelationships)
                               # NoError)
    IN  IF Len(failing) > 0
        THEN [error |-> FirstMissing(failing[1], allPeople, allRelationships),
              result |-> <<>>]
        ELSE [error |-> NoError,
              result |-> [i \in 1..Len(allPeople) |->
                            Annotate(allPeople[i], allPeople, allRelationships)]]

\* The request, with both selects answered from one state of the tables.
GetFamilyTree ==
    /\ LET out == getFamilyTree(SortById(people), SortById(relationships))
       IN  response' = Reply("getFamilyTree", <<>>, out.error, out.result)
    /\ UNCHANGED <<store, now, client, calls>>

\* ------------------------------------------------------------- client
\* App.loadFamilyTree: the query, then setFamilyTreeData(result); a failed
\* query is logged and leaves the data as it was.  The callback runs when no
\* render is in progress.
LoadFamilyTree ==
    /\ memo = "done"
    /\ LET out == getFamilyTree(SortById(people), SortById(relationships))
       IN  IF out.error = NoError
           THEN data' = out.result /\ memo' = "stale"
           ELSE UNCHANGED <<data, memo>>
    /\ UNCHANGED <<store, now, response, calls, roots, stack, treeStructure>>

rootPeople_All(d) == d

\* FamilyTree.treeStructure, up to the first call of buildTree.
rootPeople(d) == SelectSeq(d, LAMBDA person : Len(person.parents) = 0)

TreeStructureStart ==
    /\ memo = "stale"
    /\ treeStructure' = <<>>
    /\ stack' = <<>>
    /\ IF Len(data) = 0
       THEN roots' = <<>> /\ memo' = "done"
       ELSE /\ roots' = rootPeople(data)
            /\ memo' = IF Len(roots') = 0 THEN "done" ELSE "building"
    /\ UNCHANGED <<store, now, response, calls, data>>

Frame(person, level) ==
    [person |-> person, level |-> level, next |-> 1, children |-> <<>>]

TreeNode_RootsOnly(frame) ==
    [person |-> frame.person,
     children |-> IF frame.level = 0 THEN frame.children ELSE <<>>,
     level |-> frame.level]

TreeNode(frame) ==
    [person |-> frame.person, children |-> frame.children, level |-> frame.level]

\* The engine has no room for another activation of buildTree.
StackOverflow == Len(stack) >= MaxStack

\* One call of buildTree: from rootPeople.map when no activation is open,
\* else from person.children.map of the innermost activation, for the child
\* that data.find resolves (an unresolved child yields null and is dropped).
BuildTreeCall ==
    /\ memo = "building"
    /\ IF stack = <<>>
       THEN /\ roots # <<>>
            /\ stack' = <<Frame(Head(roots), 0)>>
            /\ roots' = Tail(roots)
            /\ UNCHANGED <<memo, treeStructure>>
       ELSE LET top == stack[Len(stack)]
            IN  /\ top.next <= Len(top.person.children)
                /\ LET child == top.person.children[top.next]
                       childWithRelationships == FindById(data, child.id)
                   IN  IF childWithRelationships = <<>>
                       THEN /\ stack' = [stack EXCEPT ![Len(stack)].next = @ + 1]
                            /\ UNCHANGED <<memo, roots, treeStructure>>
                       ELSE IF StackOverflow
                       THEN /\ memo' = "RangeError"
                            /\ stack' = <<>>
                            /\ roots' = <<>>
                            /\ treeStructure' = <<>>
                       ELSE /\ stack' = Append(stack,
                                   Frame(childWithRelationships[1], top.level + 1))
                            /\ UNCHANGED <<memo, roots, treeStructure>>
    /\ UNCHANGED <<store, now, response, calls, data>>

\* buildTree returns its node: to person.children.map of the caller, or to
\* rootPeople.map, which ends the computation after the last root.
BuildTreeReturn ==
    /\ memo = "building"
    /\ stack # <<>>
    /\ LET top == stack[Len(stack)]
           rest == SubSeq(stack, 1, Len(stack) - 1)
       IN  /\ top.next > Len(top.person.children)
           /\ IF rest = <<>>
              THEN /\ treeStructure' = Append(treeStructure, TreeNode(top))
                   /\ stack' = <<>>
                   /\ memo' = IF roots = <<>> THEN "done" ELSE "building"
              ELSE /\ stack' = [rest EXCEPT
                                   ![Len(rest)].children = Append(@, TreeNode(top)),
                                   ![Len(rest)].next = @ + 1]
                   /\ UNCHANGED <<memo, treeStructure>>
    /\ UNCHANGED <<store, now, response, calls, data, roots>>

\* What FamilyTree renders once treeStructure is computed: the 'No Family
\* Connections' view when there are people and the forest is empty, else the
\* overview, whose header reports treeStructure.length as the generations.
NoFamilyConnections ==
    memo = "done" /\ Len(data) > 0 /\ Len(treeStructure) = 0

Overview ==
    memo = "done" /\ Len(data) > 0 /\ Len(treeStructure) > 0

generations == Len(treeStructure)

\* ------------------------------------------------------------- requests, interleaved
\* A handler runs up to its next await; the statement it awaits executes
\* at the database at some later point, after statements of other requests.
Calls == 1..MaxCalls
ConcPersonIds == 1..MaxConcPeople

Unread == [read |-> FALSE, rows |-> <<>>]
Read(rows) == [read |-> TRUE, rows |-> rows]

FreeCall ==
    [op |-> "none", input |-> <<>>, pc |-> "free", parent |-> Unread,
     child |-> Unread, updateData |-> Null, allPeople |-> <<>>, error |-> NoError,
     result |-> <<>>]

Running(op, input, pc) ==
    [op |-> op, input |-> input, pc |-> pc, parent |-> Unread,
     child |-> Unread, updateData |-> Null, allPeople |-> <<>>, error |-> NoError,
     result |-> <<>>]

Done(op, input, error, result) ==
    [op |-> op, input |-> input, pc |-> "done", parent |-> Unread,
     child |-> Unread, updateData |-> Null, allPeople |-> <<>>, error |-> error,
     result |-> result]

Accepts(c) == calls[c].pc \in {"free", "done"}

\* createRelationship is called: the self check, then both selects of
\* Promise.all are sent.
CR_Begin(c, input) ==
    /\ Accepts(c)
    /\ calls' = [calls EXCEPT ![c] =
                    IF IsSelfRelationship(input)
                    THEN Done("createRelationship", input, SelfRelationship, <<>>)
                    ELSE Running("createRelationship", input, "selects")]
    /\ UNCHANGED <<store, now, response, client>>

\* Both selects of Promise.all have answered: the two existence checks.
AfterSelects(call) ==
    IF ~(call.parent.read /\ call.child.read) THEN call
    ELSE IF Len(call.parent.rows) = 0
        THEN Done(call.op, call.input, ParentNotFound(call.input.parent_id), <<>>)
    ELSE IF Len(call.child.rows) = 0
        THEN Done(call.op, call.input, ChildNotFound(call.input.child_id), <<>>)
    ELSE Running(call.op, call.input, "existing")

CR_SelectParent(c) ==
    /\ calls[c].op = "createRelationship" /\ calls[c].pc = "selects"
    /\ ~calls[c].parent.read
    /\ calls' = [calls EXCEPT ![c] = AfterSelects(
                    [calls[c] EXCEPT !.parent =
                        Read(SelectPeopleById(people, calls[c].input.parent_id))])]
    /\ UNCHANGED <<store, now, response, client>>

CR_SelectChild(c) ==
    /\ calls[c].op = "createRelationship" /\ calls[c].pc = "selects"
    /\ ~calls[c].child.read
    /\ calls' = [calls EXCEPT ![c] = AfterSelects(
                    [calls[c] EXCEPT !.child =
                        Read(SelectPeopleById(people, calls[c].input.child_id))])]
    /\ UNCHANGED <<store, now, response, client>>

CR_SelectExisting(c) ==
    /\ calls[c].op = "createRelationship" /\ calls[c].pc = "existing"
    /\ calls' = [calls EXCEPT ![c] =
                    IF Len(ExistingRelationship(relationships, calls[c].input)) > 0
                    THEN Done(@.op, @.input, DuplicateRelationship, <<>>)
                    ELSE Running(@.op, @.input, "circular")]
    /\ UNCHANGED <<store, now, response, client>>

CR_SelectCircular(c) ==
    /\ calls[c].op = "createRelationship" /\ calls[c].pc = "circular"
    /\ calls' = [calls EXCEPT ![c] =
                    IF Len(CircularCheck(relationships, calls[c].input)) > 0
                    THEN Done(@.op, @.input, CircularRelationship, <<>>)
                    ELSE Running(@.op, @.input, "insert")]
    /\ UNCHANGED <<store, now, response, client>>

\* The insert and the return of result[0]; an error of the statement is
\* rethrown.
CR_Insert(c) ==
    /\ calls[c].op = "createRelationship" /\ calls[c].pc = "insert"
    /\ LET out == InsertRelationship(people, relationships,
                                     relationships_id_seq, now, calls[c].input)
       IN  /\ relationships' = out.relationships
           /\ relationships_id_seq' = out.seq
           /\ calls' = [calls EXCEPT ![c] =
                           Done(@.op, @.input, out.error, out.result)]
    /\ UNCHANGED <<people, people_id_seq, now, response, client>>

\* deletePerson is called and its select executes.
DP_Select(c, input) ==
    /\ Accepts(c)
    /\ calls' = [calls EXCEPT ![c] =
                    IF Len(SelectPeopleById(people, input.id)) = 0
                    THEN Done("deletePerson", input, PersonNotFound(input.id), <<>>)
                    ELSE Running("deletePerson", input, "delete")]
    /\ UNCHANGED <<store, now, response, client>>

\* The delete, with its cascade, and the return of {success: true}.
DP_Delete(c) ==
    /\ calls[c].op = "deletePerson" /\ calls[c].pc = "delete"
    /\ people' = DeletePeopleById(people, calls[c].input.id)
    /\ relationships' = CascadeDelete(relationships, calls[c].input.id)
    /\ calls' = [calls EXCEPT ![c] =
                    Done(@.op, @.input, NoError, [success |-> TRUE])]
    /\ UNCHANGED <<people_id_seq, relationships_id_seq, now, response, client>>

\* updatePerson is called and its select executes; with the answer the
\* handler checks existence, takes updated_at from the clock (new Date())
\* and sends the update.
UP_Select(c, input) ==
    /\ Accepts(c)
    /\ calls' = [calls EXCEPT ![c] =
                    IF Len(SelectPeopleById(people, input.id)) = 0
                    THEN Done("updatePerson", input, PersonNotFound(input.id), <<>>)
                    ELSE [Running("updatePerson", input, "update")
                             EXCEPT !.updateData = Some([updated_at |-> now])]]
    /\ UNCHANGED <<store, now, response, client>>

\* The update executes, and the handler returns result[0].
UP_Update(c) ==
    /\ calls[c].op = "updatePerson" /\ calls[c].pc = "update"
    /\ people' = UpdatePeopleById(people, calls[c].updateData[1].updated_at,
                                  calls[c].input)
    /\ calls' = [calls EXCEPT ![c] =
                    Done(@.op, @.input, NoError,
                         SelectPeopleById(people', calls[c].input.id))]
    /\ UNCHANGED <<relationships, people_id_seq, relationships_id_seq, now,
                   response, client>>

\* getFamilyTree is called and its select of all people executes.
GFT_SelectPeople(c) ==
    /\ Accepts(c)
    /\ calls' = [calls EXCEPT ![c] =
                    [Running("getFamilyTree", <<>>, "relationships")
                        EXCEPT !.allPeople = SortById(people)]]
    /\ UNCHANGED <<store, now, response, client>>

\* The select of all relationships executes; the handler maps allPeople to
\* the entries and returns them, or throws at the first lookup that fails.
GFT_SelectRelationships(c) ==
    /\ calls[c].op = "getFamilyTree" /\ calls[c].pc = "relationships"
    /\ LET out == getFamilyTree(calls[c].allPeople, SortById(relationships))
       IN  calls' = [calls EXCEPT ![c] =
                        Done(@.op, @.input, out.error, out.result)]
    /\ UNCHANGED <<store, now, response, client>>

\* ------------------------------------------------------------- specification
NoReply == Reply("none", <<>>, NoError, <<>>)

Init ==
    /\ people = {}
    /\ relationships = {}
    /\ people_id_seq = 0
    /\ relationships_id_seq = 0
    /\ now = 0
    /\ response = NoReply
    /\ data = <<>>
    /\ memo = "done"
    /\ roots = <<>>
    /\ stack = <<>>
    /\ treeStructure = <<>>
    /\ calls = [c \in Calls |-> FreeCall]

\* The inputs the requests of Spec draw from.
SpecCreatePersonInputs ==
    {i \in CreatePersonInputs :
        i.full_name = "Ann" /\ i.birth_date = Null /\ i.death_date = Null
        /\ i.photo_url = Null}

SpecUpdatePersonInputs ==
    [id : PersonIds, full_name : {Undefined, Given("Bob")},
     birth_date : {Undefined}, death_date : {Undefined},
     photo_url : {Undefined}]

\* The serials stay within the bounds.
WithinBounds == people_id_seq' <= MaxPeople /\ relationships_id_seq' <= MaxRels

Next ==
    \/ \E input \in SpecCreatePersonInputs : CreatePerson(input) /\ WithinBounds
    \/ \E input \in SpecUpdatePersonInputs : UpdatePerson(input)
    \/ \E input \in GetPersonInputs : DeletePerson(input)
    \/ \E input \in RelationshipInputs : CreateRelationship(input) /\ WithinBounds
    \/ \E input \in GetPersonInputs : GetPerson(input)
    \/ GetFamilyTree
    \/ \E input \in RelationshipInputs : DeleteRelationship(input)

Spec == Init /\ [][Next]_vars


\* ------------------------------------------------------------- person records
\* One request at a time over at most MaxRecPeople people, with every
\* combination of supplied, cleared and omitted fields, and a clock.
RecPersonIds == 1..MaxRecPeople

RecCreatePersonInputs ==
    {i \in CreatePersonInputs :
        /\ i.full_name = "Ann"
        /\ (i.birth_date = Null) = (i.death_date = Null)
        /\ (i.birth_date = Null) = (i.photo_url = Null)}

\* Updates that supply no field, one field, or all four.
SuppliedFields(i) ==
    {f \in {"full_name", "birth_date", "death_date", "photo_url"} :
        i[f] # Undefined}

RecUpdatePersonInputs ==
    {i \in UpdatePersonInputs :
        /\ i.id \in RecPersonIds
        /\ \/ Cardinality(SuppliedFields(i)) <= 1
           \/ /\ Cardinality(SuppliedFields(i)) = 4
              /\ i.full_name = Given("Bob")
              /\ (i.birth_date = Given(Null)) = (i.death_date = Given(Null))
              /\ (i.birth_date = Given(Null)) = (i.photo_url = Given(Null))}
RecRelationshipInputs == [parent_id : RecPersonIds, child_id : RecPersonIds]
RecGetPersonInputs == [id : RecPersonIds]

WithinRecBounds ==
    people_id_seq' <= MaxRecPeople /\ relationships_id_seq' <= MaxRecRels

\* Time passes between two requests.
Tick ==
    /\ now < MaxTime
    /\ now' = now + 1
    /\ UNCHANGED <<store, response, client, calls>>

NextPerson ==
    \/ \E input \in RecCreatePersonInputs :
           CreatePerson(input) /\ WithinRecBounds
    \/ \E input \in RecUpdatePersonInputs : UpdatePerson(input)
    \/ \E input \in RecGetPersonInputs : DeletePerson(input)
    \/ \E input \in RecRelationshipInputs :
           CreateRelationship(input) /\ WithinRecBounds
    \/ Tick

SpecPerson == Init /\ [][NextPerson]_vars

\* ------------------------------------------------------------- concurrent updates
\* updatePerson requests with interleaved statements, and a clock of which no
\* two readings are equal: a request reads it only after it has advanced
\* past every reading taken before.
UpdPersonIds == 1..MaxUpdPeople

UpdUpdatePersonInputs ==
    {i \in UpdatePersonInputs :
        /\ i.id \in UpdPersonIds
        /\ i.full_name \in {Undefined, Given("Bob")}
        /\ i.birth_date = Undefined
        /\ i.death_date = Undefined
        /\ i.photo_url = Undefined}

UpdGetPersonInputs == [id : UpdPersonIds]

Readings ==
    {p.created_at : p \in people} \cup {p.updated_at : p \in people}
    \cup {calls[c].updateData[1].updated_at :
            c \in {d \in Calls : calls[d].updateData # Null}}

ClockIsFresh == \A t \in Readings : t < now

TickUpd ==
    /\ now < MaxUpdTime
    /\ now' = now + 1
    /\ UNCHANGED <<store, response, client, calls>>

NextUpdate ==
    \/ \E input \in SpecCreatePersonInputs :
           /\ ClockIsFresh
           /\ CreatePerson(input)
           /\ people_id_seq' <= MaxUpdPeople
    \/ \E c \in Calls, input \in UpdUpdatePersonInputs :
           ClockIsFresh /\ UP_Select(c, input)
    \/ \E c \in Calls : UP_Update(c)
    \/ \E c \in Calls, input \in UpdGetPersonInputs : DP_Select(c, input)
    \/ \E c \in Calls : DP_Delete(c)
    \/ TickUpd

SpecUpdate == Init /\ [][NextUpdate]_vars

\* ------------------------------------------------------------- client session
\* One client: each mutation is followed by loadFamilyTree and the render of
\* FamilyTree before the next mutation is sent (handleCreatePerson,
\* handleRelationshipChange).
TreeCreatePersonInputs == SpecCreatePersonInputs
TreeRelationshipInputs == [parent_id : TreePersonIds, child_id : TreePersonIds]

DataIsCurrent ==
    /\ memo = "done"
    /\ data = getFamilyTree(SortById(people), SortById(relationships)).result

WithinTreeBounds ==
    people_id_seq' <= MaxTreePeople /\ relationships_id_seq' <= MaxTreeRels

NextTree ==
    \/ \E input \in TreeCreatePersonInputs :
           DataIsCurrent /\ CreatePerson(input) /\ WithinTreeBounds
    \/ \E input \in TreeRelationshipInputs :
           /\ DataIsCurrent
           /\ CreateRelationship(input)
           /\ response'.error = NoError
           /\ WithinTreeBounds
    \/ ~DataIsCurrent /\ LoadFamilyTree
    \/ TreeStructureStart
    \/ BuildTreeCall
    \/ BuildTreeReturn

SpecTree == Init /\ [][NextTree]_vars

\* ------------------------------------------------------------- concurrent requests
ConcRelationshipInputs == [parent_id : ConcPersonIds, child_id : ConcPersonIds]
ConcGetPersonInputs == [id : ConcPersonIds]

WithinConcBounds ==
    people_id_seq' <= MaxConcPeople /\ relationships_id_seq' <= MaxConcRels

NextConc ==
    \/ \E input \in SpecCreatePersonInputs :
           CreatePerson(input) /\ WithinConcBounds
    \/ \E c \in Calls, input \in ConcRelationshipInputs : CR_Begin(c, input)
    \/ \E c \in Calls : CR_SelectParent(c)
    \/ \E c \in Calls : CR_SelectChild(c)
    \/ \E c \in Calls : CR_SelectExisting(c)
    \/ \E c \in Calls : CR_SelectCircular(c)
    \/ \E c \in Calls : CR_Insert(c) /\ WithinConcBounds
    \/ \E c \in Calls, input \in ConcGetPersonInputs : DP_Select(c, input)
    \/ \E c \in Calls : DP_Delete(c)

SpecConc == Init /\ [][NextConc]_vars

\* ------------------------------------------------------------- concurrent reads
\* getFamilyTree requests whose two selects other requests complete between.
NextRead ==
    \/ \E input \in SpecCreatePersonInputs :
           CreatePerson(input) /\ WithinConcBounds
    \/ \E input \in ConcRelationshipInputs :
           CreateRelationship(input) /\ WithinConcBounds
    \/ \E input \in ConcGetPersonInputs : DeletePerson(input)
    \/ \E c \in Calls : GFT_SelectPeople(c)
    \/ \E c \in Calls : GFT_SelectRelationships(c)

SpecRead == Init /\ [][NextRead]_vars

\* ------------------------------------------------------------- properties
PersonExists(id) == \E p \in people : p.id = id
Edges(a, b) == {r \in relationships : r.parent_id = a /\ r.child_id = b}
EdgesAfter(a, b) == {r \in relationships' : r.parent_id = a /\ r.child_id = b}
Request(a, b) == [parent_id |-> a, child_id |-> b]

\* C1: with requests executed one at a time, the relationships table never
\* holds an edge from a person to itself, two edges with the same
\* (parent_id, child_id) pair, or an edge together with its reversal.
C1_EdgeInvariants ==
    \A r \in relationships :
        /\ r.parent_id # r.child_id
        /\ Cardinality(Edges(r.parent_id, r.child_id)) = 1
        /\ Edges(r.child_id, r.parent_id) = {}

C1_Witness ==
    /\ response.op = "createRelationship"
    /\ response.error = CircularRelationship
    /\ Cardinality(relationships) >= 2
    /\ relationships_id_seq > Cardinality(relationships)

\* C2: createRelationship(x, x) for an existing person x is rejected with
\* 'A person cannot be their own parent' and leaves the relationships table
\* as it was, in every state.
C2_SelfRelationshipRejected ==
    [][\A x \in PersonIds :
          (PersonExists(x) /\ CreateRelationship(Request(x, x)))
          => (response'.error = SelfRelationship
              /\ relationships' = relationships)]_vars

C2_Witness ==
    /\ response.op = "createRelationship"
    /\ response.input.parent_id = response.input.child_id
    /\ PersonExists(response.input.parent_id)
    /\ response.error = SelfRelationship
    /\ relationships # {}

\* C3: while an edge (A, B) is stored, createRelationship(A, B) is rejected
\* with 'Relationship already exists between these people' and the pair
\* (A, B) keeps exactly one edge.
C3_DuplicateRejected ==
    [][\A input \in RelationshipInputs :
          (Edges(input.parent_id, input.child_id) # {}
           /\ CreateRelationship(input))
          => (response'.error = DuplicateRelationship
              /\ Cardinality(EdgesAfter(input.parent_id, input.child_id)) = 1)]_vars

C3_Witness ==
    /\ response.op = "createRelationship"
    /\ response.error = DuplicateRelationship
    /\ Cardinality(Edges(response.input.parent_id, response.input.child_id)) = 1

\* C4: while an edge (A, B) is stored and A and B exist, createRelationship(B, A)
\* is rejected with 'Cannot create circular parent-child relationship' and
\* no edge (B, A) is created.
C4_CircularRejected ==
    [][\A input \in RelationshipInputs :
          (Edges(input.child_id, input.parent_id) # {}
           /\ PersonExists(input.parent_id) /\ PersonExists(input.child_id)
           /\ CreateRelationship(input))
          => (response'.error = CircularRelationship
              /\ EdgesAfter(input.parent_id, input.child_id) = {})]_vars

C4_Witness ==
    /\ response.op = "createRelationship"
    /\ response.error = CircularRelationship
    /\ Edges(response.input.child_id, response.input.parent_id) # {}
    /\ Edges(response.input.parent_id, response.input.child_id) = {}

\* C5: createRelationship reports the first check that fails in the order
\* self-relationship, parent missing, child missing, duplicate edge, reversed
\* edge (so a self-request for a missing person reports the self-relationship
\* and a request with both people missing reports the parent), and the five
\* errors are pairwise distinct.
FirstFailedCheck(input) ==
    IF input.parent_id = input.child_id THEN SelfRelationship
    ELSE IF ~PersonExists(input.parent_id) THEN ParentNotFound(input.parent_id)
    ELSE IF ~PersonExists(input.child_id) THEN ChildNotFound(input.child_id)
    ELSE IF Edges(input.parent_id, input.child_id) # {} THEN DuplicateRelationship
    ELSE IF Edges(input.child_id, input.parent_id) # {} THEN CircularRelationship
    ELSE NoError

FailureSignals(input) ==
    <<SelfRelationship, ParentNotFound(input.parent_id),
      ChildNotFound(input.child_id), DuplicateRelationship,
      CircularRelationship>>

C5_ChecksInOrder ==
    [][\A input \in RelationshipInputs :
          CreateRelationship(input)
          => (/\ response'.error = FirstFailedCheck(input)
              /\ \A i, j \in 1..5 :
                    i # j => FailureSignals(input)[i] # FailureSignals(input)[j])]_vars

C5_Witness ==
    /\ response.op = "createRelationship"
    /\ response.input.parent_id # response.input.child_id
    /\ ~PersonExists(response.input.parent_id)
    /\ ~PersonExists(response.input.child_id)
    /\ response.error = ParentNotFound(response.input.parent_id)
    /\ people # {}

\* C6: a createRelationship request that ends in an error (one of the five
\* rejections, or the error of the insert statement) has changed neither the
\* people nor the relationships: each step of a createRelationship request
\* other than its successful return leaves both tables as they were.
C6_FailedRequestWritesNothing ==
    [][\A c \in Calls :
          (/\ calls'[c] # calls[c]
           /\ calls'[c].op = "createRelationship"
           /\ ~(calls'[c].pc = "done" /\ calls'[c].error = NoError))
          => (people' = people /\ relationships' = relationships)]_vars

C6_Witness ==
    \E c \in Calls :
        /\ calls[c].op = "createRelationship"
        /\ calls[c].pc = "done"
        /\ calls[c].error = ForeignKeyViolation
        /\ ~PersonExists(calls[c].input.parent_id)
        /\ people # {}

\* C7: for two distinct existing people with no edge between them in either
\* direction, createRelationship succeeds: the table gains exactly one row
\* (parent_id, child_id) whose id no stored row has, the row is returned, and
\* the people are untouched.
C7_ValidRequestSucceeds ==
    [][\A input \in RelationshipInputs :
          (/\ input.parent_id # input.child_id
           /\ PersonExists(input.parent_id) /\ PersonExists(input.child_id)
           /\ Edges(input.parent_id, input.child_id) = {}
           /\ Edges(input.child_id, input.parent_id) = {}
           /\ CreateRelationship(input))
          => (/\ response'.error = NoError
              /\ Len(response'.result) = 1
              /\ LET row == response'.result[1]
                 IN  /\ row.parent_id = input.parent_id
                     /\ row.child_id = input.child_id
                     /\ \A r \in relationships : r.id # row.id
                     /\ relationships' = relationships \cup {row}
                     /\ Cardinality(relationships')
                            = Cardinality(relationships) + 1
              /\ people' = people)]_vars

\* The created edge gives its child a second parent, and another person
\* has two children.
C7_Witness ==
    /\ response.op = "createRelationship"
    /\ response.error = NoError
    /\ response.result[1] \in relationships
    /\ Cardinality({r \in relationships :
                       r.child_id = response.input.child_id}) >= 2
    /\ \E p \in people :
          Cardinality({r \in relationships : r.parent_id = p.id}) >= 2


\* ------------------------------------------------------------- properties of the forest
RECURSIVE NodesOf(_)
NodesOf(node) ==
    {node} \cup UNION {NodesOf(node.children[i]) : i \in 1..Len(node.children)}

ForestNodes == UNION {NodesOf(treeStructure[i]) : i \in 1..Len(treeStructure)}

HasParentEdge(id) == \E r \in relationships : r.child_id = id

RootPositions(id) ==
    {i \in 1..Len(treeStructure) : treeStructure[i].person.id = id}

ChildPositions(node, id) ==
    {i \in 1..Len(node.children) : node.children[i].person.id = id}

\* C8: the assembly of the forest ends for every loaded getFamilyTree result
\* without the call stack running out, and no activation of buildTree is for
\* a person an enclosing activation is already for.
C8_AssemblerGuardsPath ==
    /\ memo # "RangeError"
    /\ \A i, j \in 1..Len(stack) :
          i # j => stack[i].person.id # stack[j].person.id

\* C9: in the forest assembled from the current getFamilyTree result, every
\* person without a parent edge is a top-level root exactly once and no
\* person with a parent edge is a top-level root.
C9_RootsAreTheParentless ==
    DataIsCurrent =>
        /\ \A p \in people :
              ~HasParentEdge(p.id) => Cardinality(RootPositions(p.id)) = 1
        /\ \A i \in 1..Len(treeStructure) :
              /\ PersonExists(treeStructure[i].person.id)
              /\ ~HasParentEdge(treeStructure[i].person.id)
              /\ treeStructure[i].level = 0

C9_Witness ==
    /\ DataIsCurrent
    /\ Len(treeStructure) >= 2
    /\ \E p \in people : HasParentEdge(p.id)
    /\ \E i \in 1..Len(treeStructure) : Len(treeStructure[i].children) >= 1

RECURSIVE Descend(_, _)
Descend(S, n) ==
    IF n = 0 THEN S
    ELSE Descend(S \cup {r.child_id : r \in {e \in relationships :
                                               e.parent_id \in S}}, n - 1)

ReachableFromRoots ==
    Descend({p.id : p \in {q \in people : ~HasParentEdge(q.id)}},
            Cardinality(people))

C11_DeletePersonCascades ==
    [][\A input \in GetPersonInputs :
          (DeletePerson(input) /\ response'.error = NoError)
          => (/\ PersonExists(input.id)
              /\ people' = {p \in people : p.id # input.id}
              /\ relationships' = {r \in relationships :
                                      r.parent_id # input.id
                                      /\ r.child_id # input.id}
              /\ response'.result = [success |-> TRUE])]_vars

\* The deleted person was parent in one edge and child in another, and an
\* edge between two other people is still stored.
C11_Witness ==
    /\ response.op = "deletePerson"
    /\ response.error = NoError
    /\ ~PersonExists(response.input.id)
    /\ relationships # {}
    /\ relationships_id_seq >= Cardinality(relationships) + 2

\* C12: in every state, also while the statements of createRelationship and
\* deletePerson requests interleave, both ends of every stored edge are
\* existing people; an insert whose parent or child has been deleted since
\* the existence check fails and stores nothing.
C12_EdgesReferencePeople ==
    /\ [](\A r \in relationships :
              PersonExists(r.parent_id) /\ PersonExists(r.child_id))
    /\ [][\A c \in Calls :
              (/\ CR_Insert(c)
               /\ ~(PersonExists(calls[c].input.parent_id)
                    /\ PersonExists(calls[c].input.child_id)))
              => (/\ calls'[c].pc = "done"
                  /\ calls'[c].error = ForeignKeyViolation
                  /\ calls'[c].result = <<>>
                  /\ relationships' = relationships)]_vars

\* A request passed both existence checks, its child was deleted before the
\* insert, and the insert failed.
C12_Witness ==
    \E c \in Calls :
        /\ calls[c].op = "createRelationship"
        /\ calls[c].pc = "done"
        /\ calls[c].error = ForeignKeyViolation
        /\ PersonExists(calls[c].input.parent_id)
        /\ ~PersonExists(calls[c].input.child_id)
        /\ relationships = {}

\* C13: deletePerson(id) for an id that no person has fails with
\* 'Person with id <id> not found' and leaves people and edges as they were.
C13_DeleteMissingPerson ==
    [][\A input \in GetPersonInputs :
          (~PersonExists(input.id) /\ DeletePerson(input))
          => (/\ response'.error = PersonNotFound(input.id)
              /\ response'.result = <<>>
              /\ people' = people
              /\ relationships' = relationships)]_vars

C13_Witness ==
    /\ response.op = "deletePerson"
    /\ response.error = PersonNotFound(response.input.id)
    /\ people # {}
    /\ relationships # {}

\* C14: deleteRelationship(p, c) with no stored edge (p, c) returns
\* {success: false} without an error and changes nothing, whether or not p
\* and c exist; so it does right after a successful deleteRelationship(p, c).
C14_DeleteMissingRelationship ==
    [][\A input \in RelationshipInputs :
          (Edges(input.parent_id, input.child_id) = {}
           /\ DeleteRelationship(input))
          => (/\ response'.error = NoError
              /\ response'.result = [success |-> FALSE]
              /\ people' = people
              /\ relationships' = relationships)]_vars

\* The request named a person that does not exist, while edges are stored.
C14_Witness ==
    /\ response.op = "deleteRelationship"
    /\ response.error = NoError
    /\ response.result = [success |-> FALSE]
    /\ ~PersonExists(response.input.parent_id)
    /\ relationships # {}

\* C15: deleteRelationship(p, c) returns {success: true} exactly when an
\* edge (p, c) was stored; afterwards none is, and every edge of another
\* pair (the reversed pair included) and every person is as before.
C15_DeleteRelationshipFrame ==
    [][\A input \in RelationshipInputs :
          DeleteRelationship(input)
          => (/\ response'.result.success
                    = (Edges(input.parent_id, input.child_id) # {})
              /\ EdgesAfter(input.parent_id, input.child_id) = {}
              /\ relationships' =
                    relationships \ Edges(input.parent_id, input.child_id)
              /\ people' = people)]_vars

\* The child of the deleted edge keeps its other parent.
C15_Witness ==
    /\ response.op = "deleteRelationship"
    /\ response.result = [success |-> TRUE]
    /\ Edges(response.input.parent_id, response.input.child_id) = {}
    /\ \E r \in relationships : r.child_id = response.input.child_id


\* ------------------------------------------------------------- properties of people
\* C19: every createPerson returns a positive id greater than every id a
\* createPerson returned before, so ids are unique across calls and the id of
\* a deleted person is not assigned again.  people_id_seq is the greatest id
\* returned so far: it never decreases, no stored id exceeds it, and a
\* createPerson returns the next value above it.
C19_IdsNeverReused ==
    /\ [](\A p \in people : p.id >= 1 /\ p.id <= people_id_seq)
    /\ [][/\ people_id_seq' >= people_id_seq
          /\ \A input \in SpecCreatePersonInputs :
                CreatePerson(input)
                => (/\ Len(response'.result) = 1
                    /\ response'.result[1].id > 0
                    /\ response'.result[1].id > people_id_seq
                    /\ response'.result[1].id = people_id_seq'
                    /\ ~PersonExists(response'.result[1].id)
                    /\ response'.result[1] \in people')]_vars

\* A person is created after a person with a smaller id was deleted.
C19_Witness ==
    /\ response.op = "createPerson"
    /\ response.result[1].id = people_id_seq
    /\ \E i \in 1..(people_id_seq - 1) : ~PersonExists(i)

\* C20: getPerson(id) returns null exactly when no person has the id;
\* otherwise the parents it lists are exactly the people p with an edge
\* (p, id) and the children exactly the people c with an edge (id, c), which
\* depends on the stored edges only, not on the order of their creation.
C20_GetPersonResolves ==
    [][\A input \in GetPersonInputs :
          GetPerson(input)
          => LET out == response'.result
                 up == {r \in relationships : r.child_id = input.id}
                 down == {r \in relationships : r.parent_id = input.id}
             IN  /\ response'.error = NoError
                 /\ (out = Null) <=> ~PersonExists(input.id)
                 /\ out # Null =>
                      /\ out[1].id = input.id
                      /\ {out[1].parents[i] : i \in 1..Len(out[1].parents)}
                            = {p \in people : \E r \in up : r.parent_id = p.id}
                      /\ {out[1].children[i] : i \in 1..Len(out[1].children)}
                            = {p \in people : \E r \in down : r.child_id = p.id}
                      /\ Len(out[1].parents) = Cardinality(up)
                      /\ Len(out[1].children) = Cardinality(down)]_vars

\* A person with two parents, the edge of the parent with the greater id
\* recorded first.
C20_Witness ==
    /\ response.op = "getPerson"
    /\ response.result # Null
    /\ Len(response.result[1].parents) = 2
    /\ response.result[1].parents[1].id > response.result[1].parents[2].id


\* C16: a successful updatePerson sets each of full_name, birth_date,
\* death_date and photo_url to the supplied value when the field is supplied
\* (null clears a nullable field) and keeps its value when the field is
\* omitted; the person's id and created_at, every other person and every edge
\* are unchanged.
C16_PartialUpdate ==
    [][(/\ response'.op = "updatePerson"
        /\ response'.error = NoError
        /\ UpdatePerson(response'.input))
       => LET input == response'.input
              old == CHOOSE p \in people : p.id = input.id
              new == response'.result[1]
              Field(f) == IF input[f] = Undefined THEN old[f] ELSE input[f][1]
          IN  /\ PersonExists(input.id)
              /\ Len(response'.result) = 1
              /\ new \in people'
              /\ new.id = input.id
              /\ new.created_at = old.created_at
              /\ new.full_name = Field("full_name")
              /\ new.birth_date = Field("birth_date")
              /\ new.death_date = Field("death_date")
              /\ new.photo_url = Field("photo_url")
              /\ people' \ {new} = people \ {old}
              /\ relationships' = relationships]_vars

\* An update that clears birth_date only, at a later time than the creation,
\* of a person with an edge to another person: death_date and photo_url keep
\* their values.
C16_Witness ==
    /\ response.op = "updatePerson"
    /\ response.error = NoError
    /\ response.input.birth_date = Given(Null)
    /\ response.input.death_date = Undefined
    /\ response.input.photo_url = Undefined
    /\ response.result[1].death_date # Null
    /\ response.result[1].photo_url # Null
    /\ response.result[1].created_at < now
    /\ Cardinality(people) = 2
    /\ relationships # {}

\* C17: updatePerson for an id that no person has fails with
\* 'Person with id <id> not found', returns no record and changes nothing.
C17_UpdateMissingPerson ==
    [][\A input \in SpecUpdatePersonInputs :
          (~PersonExists(input.id) /\ UpdatePerson(input))
          => (/\ response'.error = PersonNotFound(input.id)
              /\ response'.result = <<>>
              /\ people' = people
              /\ relationships' = relationships)]_vars

\* The id was a person's before that person was deleted.
C17_Witness ==
    /\ response.op = "updatePerson"
    /\ response.error = PersonNotFound(response.input.id)
    /\ response.input.id <= people_id_seq
    /\ response.input.full_name # Undefined
    /\ people # {}


\* C18: created_at equals updated_at when a person is created, created_at
\* never changes afterwards, and every successful updatePerson leaves the
\* person with a greater updated_at than it had, also when the request
\* supplies nothing but the id.
C18_UpdatedAtAdvances ==
    [][/\ \A input \in SpecCreatePersonInputs :
             CreatePerson(input)
             => response'.result[1].created_at = response'.result[1].updated_at
       /\ \A p \in people, q \in people' :
             p.id = q.id => q.created_at = p.created_at
       /\ \A c \in Calls :
             (UP_Update(c) /\ calls'[c].error = NoError)
             => \A p \in people, q \in people' :
                   (p.id = calls[c].input.id /\ q.id = p.id)
                       => q.updated_at > p.updated_at]_vars


\* ------------------------------------------------------------- properties of the queries
\* The columns of a person row of a PersonWithRelationships entry.
PersonOf(entry) ==
    [id |-> entry.id, full_name |-> entry.full_name,
     birth_date |-> entry.birth_date, death_date |-> entry.death_date,
     photo_url |-> entry.photo_url, created_at |-> entry.created_at,
     updated_at |-> entry.updated_at]

\* How often a row with the id occurs in a list of rows.
IdCount(rows, id) == Cardinality({i \in 1..Len(rows) : rows[i].id = id})

\* C21: getFamilyTree returns exactly one entry per existing person, and
\* the parents of an entry p hold one person record per edge (q, p), its
\* children one person record per edge (p, q); for two people M, D and the
\* single edge M -> D, M has children = [D] and no parents, D has
\* parents = [M] and no children.
C21_FamilyTreeAnnotates ==
    [][GetFamilyTree
       => LET out == response'.result
          IN  /\ response'.error = NoError
              /\ Len(out) = Cardinality(people)
              /\ {PersonOf(out[i]) : i \in 1..Len(out)} = people
              /\ \A i \in 1..Len(out) :
                    /\ \A j \in 1..Len(out[i].parents) :
                          out[i].parents[j] \in people
                    /\ \A j \in 1..Len(out[i].children) :
                          out[i].children[j] \in people
                    /\ \A q \in PersonIds :
                          /\ IdCount(out[i].parents, q)
                                = Cardinality(Edges(q, out[i].id))
                          /\ IdCount(out[i].children, q)
                                = Cardinality(Edges(out[i].id, q))]_vars

\* Two people and the single edge from the first to the second.
C21_Witness ==
    /\ response.op = "getFamilyTree"
    /\ Cardinality(people) = 2
    /\ Cardinality(relationships) = 1
    /\ Len(response.result) = 2
    /\ response.result[1].parents = <<>>
    /\ response.result[1].children = <<PersonOf(response.result[2])>>
    /\ response.result[2].parents = <<PersonOf(response.result[1])>>
    /\ response.result[2].children = <<>>

\* C28: in every state of the tables, for every person p the entry of p in
\* the getFamilyTree result has the id and the same parent ids and child
\* ids, each as often, as the result of getPerson(p.id); and q is among the
\* children of p as often as p is among the parents of q.
C28_QueriesAgree ==
    LET tree == getFamilyTree(SortById(people), SortById(relationships))
    IN  /\ tree.error = NoError
        /\ \A p \in people :
              LET entry == FindById(tree.result, p.id)
                  person == getPerson(people, relationships, [id |-> p.id])
              IN  /\ entry # <<>>
                  /\ person # Null
                  /\ entry[1].id = person[1].id
                  /\ \A q \in PersonIds :
                        /\ IdCount(entry[1].parents, q)
                              = IdCount(person[1].parents, q)
                        /\ IdCount(entry[1].children, q)
                              = IdCount(person[1].children, q)
                        /\ LET other == FindById(tree.result, q)
                           IN  other # <<>> =>
                                  IdCount(entry[1].children, q)
                                      = IdCount(other[1].parents, p.id)

\* getPerson has answered for a person with a parent and a child.
C28_Witness ==
    /\ response.op = "getPerson"
    /\ response.result # Null
    /\ Len(response.result[1].parents) = 1
    /\ Len(response.result[1].children) = 1
    /\ PersonExists(response.input.id)


\* C24: createRelationship detects no cycle beyond the self-loop and the
\* immediate reversal: for three distinct people A, B, C with edges A -> B
\* and B -> C and no edge between A and C, createRelationship(C, A)
\* succeeds, so a directed cycle of length 3 is reachable by sequential
\* requests.
C24_LongCycleAccepted ==
    [][\A input \in RelationshipInputs :
          (/\ \E b \in PersonIds :
                 /\ Cardinality({input.child_id, b, input.parent_id}) = 3
                 /\ PersonExists(input.child_id)
                 /\ PersonExists(b)
                 /\ PersonExists(input.parent_id)
                 /\ Edges(input.child_id, b) # {}
                 /\ Edges(b, input.parent_id) # {}
           /\ Edges(input.child_id, input.parent_id) = {}
           /\ Edges(input.parent_id, input.child_id) = {}
           /\ CreateRelationship(input))
          => (/\ response'.error = NoError
              /\ Len(response'.result) = 1
              /\ response'.result[1] \in relationships'
              /\ EdgesAfter(input.parent_id, input.child_id) # {})]_vars

\* The last request closed a cycle of length 3.
C24_Witness ==
    /\ response.op = "createRelationship"
    /\ response.error = NoError
    /\ \E b \in PersonIds :
          /\ Cardinality({response.input.child_id, b, response.input.parent_id}) = 3
          /\ Edges(response.input.child_id, b) # {}
          /\ Edges(b, response.input.parent_id) # {}
          /\ Edges(response.input.parent_id, response.input.child_id) # {}


\* ------------------------------------------------------------- properties of interleaved requests
\* C22: in every state, also while createRelationship requests for the same
\* (parent_id, child_id) interleave their statements, at most one edge of
\* the pair is stored.
C22_OneEdgePerPair ==
    \A a \in ConcPersonIds, b \in ConcPersonIds : Cardinality(Edges(a, b)) <= 1

\* C23: in every state, also while createRelationship(A, B) and
\* createRelationship(B, A) interleave their statements, the edges (A, B)
\* and (B, A) are not both stored.
C23_NoReversedEdges ==
    \A a \in ConcPersonIds, b \in ConcPersonIds :
        Edges(a, b) = {} \/ Edges(b, a) = {}

\* C27: a deletePerson(id) request returns {success: true} only when its
\* delete statement removes the person; the request whose delete finds no
\* row does not report success, so at most one request per id does.
C27_OneDeleteSucceeds ==
    [][\A c \in Calls :
          (DP_Delete(c) /\ calls'[c].error = NoError
                        /\ calls'[c].result = [success |-> TRUE])
          => PersonExists(calls[c].input.id)]_vars


\* C26: every updatePerson request ends with PersonNotFound or returns the
\* updated record of the person with the requested id, also when a
\* deletePerson of that id completes between its existence check and its
\* update; it never ends successfully without a record.
C26_UpdateReturnsRecord ==
    \A c \in Calls :
        (calls[c].op = "updatePerson" /\ calls[c].pc = "done")
        => \/ calls[c].error = PersonNotFound(calls[c].input.id)
           \/ /\ calls[c].error = NoError
              /\ Len(calls[c].result) = 1
              /\ calls[c].result[1].id = calls[c].input.id


\* C25: getFamilyTree answers from one consistent snapshot: when
\* createPerson, createRelationship or deletePerson requests complete
\* between its select of the people and its select of the relationships, it
\* does not fail with 'Child with id ... not found' or 'Parent with id ...
\* not found', and what it returns is the annotation of one state of the
\* tables, whose people are the people it read.
C25_ConsistentSnapshot ==
    [][\A c \in Calls :
          GFT_SelectRelationships(c)
          => (/\ calls'[c].error = NoError
              /\ \E R \in SUBSET relationships :
                    LET out == getFamilyTree(calls[c].allPeople, SortById(R))
                    IN  out.error = NoError
                        /\ calls'[c].result = out.result)]_vars


\* ------------------------------------------------------------- properties of the rendering
\* C29: whenever FamilyTree shows its 'No Family Connections' view, all
\* people are orphans and no parent-child relationship is established:
\* every entry of data has no parents and no children.
C29_NoConnectionsMeansOrphans ==
    NoFamilyConnections
    => \A i \in 1..Len(data) :
          data[i].parents = <<>> /\ data[i].children = <<>>

\* C30: the number the header reports as generations is the number of
\* levels of the forest: 1 plus the largest level of a node, where roots
\* have level 0 and a child node the level of its parent node plus 1.
C30_GenerationsAreLevels ==
    Overview
    => /\ \A node \in ForestNodes :
             \A i \in 1..Len(node.children) :
                 node.children[i].level = node.level + 1
       /\ \A i \in 1..Len(treeStructure) : treeStructure[i].level = 0
       /\ \E node \in ForestNodes :
             /\ generations = 1 + node.level
             /\ \A other \in ForestNodes : other.level <= node.level

=============================================================================
